---- MODULE Spec2Model ----
(***************************************************************************)
(* The lazy service-instance registry of qiskit-ibmq-provider              *)
(* (IBMQService and its CircuitService specialisation).                    *)
(*                                                                         *)
(* Strings that the code inspects character by character (entity names,    *)
(* local identifiers) are sequences of one-character strings.  The         *)
(* ordered Python dict `_instances` is a sequence of [id, inst] entries    *)
(* with pairwise distinct ids; the instance `__dict__` (restricted to the  *)
(* entries the registry mirrors into it) is a set of such entries.         *)
(*                                                                         *)
(* Entity names whose identifier equals one of the registry's own field    *)
(* names (`_instances`, `_initialized`, ...) are not part of NameSet; they *)
(* are listed in FieldsSpec, where the whole instance __dict__ is state.   *)
(*                                                                         *)
(* Further specifications, each with its own initial states and steps:     *)
(* ValidationSpec (CircuitDefinition.instantiate, IBMQCircuit.compile),    *)
(* EncoderSpec (RemoteGate.qasm), AssemblerSpec (CircuitService.run) and   *)
(* ConcurrentSpec (two callers in _discover_instances).  The first three   *)
(* draw the arguments of one call in the initial state and run the call    *)
(* in one step.                                                            *)
(***************************************************************************)
EXTENDS Integers, Sequences, FiniteSets, TLC

VARIABLES instances, attrs, initialized, ret, call, threads

\* The registry and the record of the last call on it.
vars == <<instances, attrs, initialized, ret>>

\* call is the last call of instantiate, compile, qasm or run with what it
\* was given and how it ended; threads is the position of each caller that
\* runs _discover_instances concurrently.  The registry's operations use
\* neither.
others == <<call, threads>>

allvars == <<instances, attrs, initialized, ret, call, threads>>

\* Longest listing the collaborator returns.
MaxList == 3

\* Most entries the cache holds through single-name fetches and direct adds.
MaxCache == 2

(***************************************************************************)
(* Characters and names                                                    *)
(***************************************************************************)
Letters == {"q", "b", "z", "a", "c", "d", "e", "i", "l", "n", "s", "t"}

Digits == {"1"}

Marker == "_"

IsIdentChar(c) == c \in Letters \cup Digits \cup {Marker}

\* Entity names the server lists: "q" and "q-" (the latter is not a valid
\* identifier and sanitizes to "q_", which is also "q" plus the marker).
NameQ == <<"q">>

NameQDash == <<"q", "-">>

NameStale == <<"b">>

NamePhantom == <<"z">>

NameSet == {NameQ, NameQDash}

AllKeys == {"name", "description", "arguments", "families"}

\* An item of a listing: anything JSON can hold.  isdict says whether it is
\* a dict, keys which keys the dict has.
RawRecord(keys, name, desc) ==
    [isdict |-> TRUE, keys |-> keys, name |-> name, desc |-> desc]

NonDict == [isdict |-> FALSE, keys |-> {}, name |-> <<>>, desc |-> "none"]

NoNameRecord == RawRecord(AllKeys \ {"name"}, <<>>, "d1")

OkRecords == {RawRecord(AllKeys, NameQ, "d1"), RawRecord(AllKeys, NameQDash, "d1")}

DictItems == OkRecords \cup {NoNameRecord}

RawItems == DictItems \cup {NonDict}

RECURSIVE SeqsUpTo(_, _)
SeqsUpTo(S, n) ==
    IF n = 0 THEN {<<>>}
    ELSE LET shorter == SeqsUpTo(S, n - 1)
         IN  shorter \cup {Append(s, x) : s \in {t \in shorter : Len(t) = n - 1}, x \in S}

Listings == SeqsUpTo(RawItems, MaxList)

\* What list_circuits() does: raises RequestsApiError or returns a listing.
ListResponses ==
    {[err |-> TRUE, items |-> <<>>]} \cup {[err |-> FALSE, items |-> l] : l \in Listings}

NoResponse == [err |-> FALSE, items |-> <<>>]

\* What circuit_get(name) does: raises RequestsApiError or returns a dict,
\* which carries the requested name when it carries a name at all.
GetResponses(name) ==
    {[err |-> TRUE, raw |-> NonDict]}
        \cup {[err |-> FALSE, raw |-> r] : r \in {d \in DictItems : "name" \in d.keys => d.name = name}}

NoInst == [name |-> <<>>, desc |-> "none"]

StaleInst == [name |-> NameStale, desc |-> "d1"]

\* A definition of "q" that differs from the listed one.
OtherQInst == [name |-> NameQ, desc |-> "d2"]

(***************************************************************************)
(* The ordered dict                                                        *)
(***************************************************************************)
Keys(c) == {c[i].id : i \in DOMAIN c}

Values(c) == [i \in DOMAIN c |-> c[i].inst]

HasKey(c, id) == id \in Keys(c)

Lookup(c, id) == c[CHOOSE i \in DOMAIN c : c[i].id = id].inst

\* c[id] = inst: an existing key keeps its position.
Put(c, id, inst) ==
    IF HasKey(c, id)
    THEN [i \in DOMAIN c |-> IF c[i].id = id THEN [id |-> id, inst |-> inst] ELSE c[i]]
    ELSE Append(c, [id |-> id, inst |-> inst])

\* d[id] = inst on the instance __dict__.
AttrPut(d, id, inst) == {e \in d : e.id # id} \cup {[id |-> id, inst |-> inst]}

\* d.update(c)
RECURSIVE AttrUpdate(_, _)
AttrUpdate(d, c) ==
    IF c = <<>> THEN d
    ELSE AttrUpdate(AttrPut(d, Head(c).id, Head(c).inst), Tail(c))

HasAttr(d, id) == \E e \in d : e.id = id

AttrOf(d, id) == (CHOOSE e \in d : e.id = id).inst

(***************************************************************************)
(* Identifiers                                                             *)
(***************************************************************************)
\* utils.to_python_identifier: every character that cannot be part of an
\* identifier is replaced by "_", and a leading digit is escaped by one.
to_python_identifier(name) ==
    LET repl == [i \in DOMAIN name |-> IF IsIdentChar(name[i]) THEN name[i] ELSE Marker]
    IN  IF name # <<>> /\ name[1] \in Digits THEN <<Marker>> \o repl ELSE repl

\* The loop "while inst_python_id in self._instances: inst_python_id += '_'".
RECURSIVE AppendUntilUnused(_, _)
AppendUntilUnused(id, c) ==
    IF HasKey(c, id) THEN AppendUntilUnused(Append(id, Marker), c) ELSE id

\* Without the collision loop.
to_python_identifier_unchecked(c, instance_id) == to_python_identifier(instance_id)

to_unique_python_identifier(c, instance_id) ==
    AppendUntilUnused(to_python_identifier(instance_id), c)

\* CircuitDefinition(**raw_data): the four keyword arguments are required
\* and no other is accepted.
CircuitDefinition(raw) == [name |-> raw.name, desc |-> raw.desc]

\* CircuitService._to_service_instance on a dict: raw_data['name'] raises
\* KeyError first, then the constructor raises TypeError.
to_service_instance(c, raw) ==
    IF "name" \notin raw.keys
    THEN [exc |-> "KeyError", id |-> <<>>, inst |-> NoInst]
    ELSE IF raw.keys # AllKeys
    THEN [exc |-> "TypeError", id |-> <<>>, inst |-> NoInst]
    ELSE [exc |-> "none",
          id |-> to_unique_python_identifier(c, raw.name),
          inst |-> CircuitDefinition(raw)]

(***************************************************************************)
(* Discovery                                                               *)
(***************************************************************************)
\* "if not isinstance(raw_config, dict): ... continue"
SkipItem(raw) == ~raw.isdict

\* The for loop of _discover_instances over the listing, from item i on:
\* the cache it leaves and the exception that ended it, if any.
RECURSIVE DiscoverLoop(_, _, _)
DiscoverLoop(c, items, i) ==
    IF i > Len(items) THEN [cache |-> c, exc |-> "none"]
    ELSE IF SkipItem(items[i]) THEN DiscoverLoop(c, items, i + 1)
    ELSE LET conv == to_service_instance(c, items[i])
         IN  IF conv.exc # "none" THEN [cache |-> c, exc |-> conv.exc]
             ELSE DiscoverLoop(Put(c, conv.id, conv.inst), items, i + 1)

\* The loop's outcome for every listing, computed once.
ListingLoop == [l \in Listings |-> DiscoverLoop(<<>>, l, 1)]

\* Clearing the cache without popping the attributes.
delete_no_attribute(d, c) == d

\* _delete_all_instances on the __dict__: every cached id is popped.
delete_all_instances(d, c) == {e \in d : e.id \notin Keys(c)}

\* Discovering on every read.
NeedsDiscoveryAlways(init) == TRUE

\* "if not self._initialized:"
NeedsDiscovery(init) == ~init

\* Falling through to "self._initialized = True" after the warning.
FlagSetAfterListingError(init) == TRUE

\* The except branch returns before "self._initialized = True": the flag
\* keeps the value it had.
FlagAfterListingError(init) == init

\* An entry that no listing ever holds (one added or written by a caller).
HoldsStale(st) ==
    \/ \E i \in DOMAIN st.instances : st.instances[i].inst.name = NameStale
    \/ \E e \in st.attrs : e.inst.name = NameStale

\* _discover_instances from registry state st = [instances, attrs,
\* initialized], with resp what list_circuits() does if it is called.
\* listed: listing calls made; listErr: the listing raised RequestsApiError;
\* listing: the items listed; exc: the exception that leaves
\* _discover_instances; stale: a stale entry was held when the cache was
\* cleared.
discover_instances(st, resp) ==
    IF ~NeedsDiscovery(st.initialized)
    THEN [instances |-> st.instances, attrs |-> st.attrs, initialized |-> st.initialized,
          exc |-> "none", listed |-> 0, listErr |-> FALSE, listing |-> <<>>,
          stale |-> FALSE]
    ELSE LET cleared == delete_all_instances(st.attrs, st.instances)
         IN  IF resp.err
             THEN [instances |-> <<>>, attrs |-> cleared,
                   initialized |-> FlagAfterListingError(st.initialized),
                   exc |-> "none", listed |-> 1, listErr |-> TRUE, listing |-> <<>>,
                   stale |-> HoldsStale(st)]
             ELSE LET loop == ListingLoop[resp.items]
                  IN  IF loop.exc # "none"
                      THEN [instances |-> loop.cache, attrs |-> cleared,
                            initialized |-> st.initialized,
                            exc |-> loop.exc, listed |-> 1, listErr |-> FALSE,
                            listing |-> resp.items, stale |-> HoldsStale(st)]
                      ELSE [instances |-> loop.cache,
                            attrs |-> AttrUpdate(cleared, loop.cache),
                            initialized |-> TRUE,
                            exc |-> "none", listed |-> 1, listErr |-> FALSE,
                            listing |-> resp.items, stale |-> HoldsStale(st)]

State == [instances |-> instances, attrs |-> attrs, initialized |-> initialized]

(***************************************************************************)
(* The operations.  ret records what the last call did: the operation and  *)
(* its argument, how it ended (kind: "ok" or the exception raised), what   *)
(* it returned (inst or insts), and the collaborator calls it made:         *)
(* listed and fetched count the list_circuits() and circuit_get() calls,   *)
(* fetchErr says that circuit_get() raised.  The fetch argument of Result   *)
(* is "none", "returned" or "raised".                                      *)
(***************************************************************************)
Result(op, arg, kind, inst, insts, d, fetch) ==
    [op |-> op, arg |-> arg, kind |-> kind, inst |-> inst, insts |-> insts,
     listed |-> d.listed, listErr |-> d.listErr, listing |-> d.listing,
     stale |-> d.stale,
     fetched |-> IF fetch = "none" THEN 0 ELSE 1,
     fetchErr |-> (fetch = "raised")]

NoDiscovery ==
    [instances |-> instances, attrs |-> attrs, initialized |-> initialized,
     exc |-> "none", listed |-> 0, listErr |-> FALSE, listing |-> <<>>,
     stale |-> FALSE]

NoCall == [op |-> "none"]

NoThreads == <<>>

Init ==
    /\ instances = <<>>
    /\ attrs = {}
    /\ initialized = FALSE
    /\ ret = Result("init", <<>>, "ok", NoInst, <<>>, NoDiscovery, "none")
    /\ call = NoCall
    /\ threads = NoThreads

\* instances(): discover, then list(self._instances.values()).
InstancesWith(resp) ==
    \E d \in {discover_instances(State, resp)} :
        /\ instances' = d.instances
        /\ attrs' = d.attrs
        /\ initialized' = d.initialized
        /\ ret' = IF d.exc # "none"
                  THEN Result("instances", <<>>, d.exc, NoInst, <<>>, d, "none")
                  ELSE Result("instances", <<>>, "ok", NoInst, Values(d.instances), d, "none")

Instances ==
    \/ initialized /\ InstancesWith(NoResponse)
    \/ ~initialized /\ \E resp \in ListResponses : InstancesWith(resp)

\* refresh(): self._initialized = False, then discover.
RefreshWith(resp) ==
    \E d \in {discover_instances([State EXCEPT !.initialized = FALSE], resp)} :
        /\ instances' = d.instances
        /\ attrs' = d.attrs
        /\ initialized' = d.initialized
        /\ ret' = Result("refresh", <<>>, IF d.exc # "none" THEN d.exc ELSE "ok",
                         NoInst, <<>>, d, "none")

Refresh == \E resp \in ListResponses : RefreshWith(resp)

\* The identifiers a caller asks for as attributes.
AttrItems == {<<"q">>}

\* Attribute access svc.<item>: Python finds an entry of the instance
\* __dict__ first; __getattr__ runs only when there is none.
FoundInDict(d, item) == HasAttr(d, item)

GetAttrWith(item, resp) ==
    IF FoundInDict(attrs, item)
    THEN /\ UNCHANGED <<instances, attrs, initialized>>
         /\ ret' = Result("getattr", item, "ok", AttrOf(attrs, item), <<>>, NoDiscovery, "none")
    ELSE \E d \in {discover_instances(State, resp)} :
             /\ instances' = d.instances
             /\ attrs' = d.attrs
             /\ initialized' = d.initialized
             /\ ret' = IF d.exc # "none"
                       THEN Result("getattr", item, d.exc, NoInst, <<>>, d, "none")
                       ELSE IF HasKey(d.instances, item)
                       THEN Result("getattr", item, "ok", Lookup(d.instances, item), <<>>, d, "none")
                       ELSE Result("getattr", item, "AttributeError", NoInst, <<>>, d, "none")

GetAttr ==
    \E item \in AttrItems :
        \/ (initialized \/ FoundInDict(attrs, item)) /\ GetAttrWith(item, NoResponse)
        \/ ~(initialized \/ FoundInDict(attrs, item))
              /\ \E resp \in ListResponses : GetAttrWith(item, resp)

\* Caching without mirroring into the __dict__.
add_instance_cache_only(c, d, id, inst) == [instances |-> Put(c, id, inst), attrs |-> d]

\* _add_instance
add_instance(c, d, id, inst) == [instances |-> Put(c, id, inst), attrs |-> AttrPut(d, id, inst)]

\* Returning the last match instead of the first.
ScanByNameLast(vals, name) ==
    IF \E i \in DOMAIN vals : vals[i].name = name
    THEN CHOOSE i \in DOMAIN vals :
             /\ vals[i].name = name
             /\ \A j \in DOMAIN vals : vals[j].name = name => j <= i
    ELSE 0

\* "for circ in self.instances(): if circ.name == name: return circ":
\* the position of the instance returned, 0 when the loop ends without one.
ScanByName(vals, name) ==
    IF \E i \in DOMAIN vals : vals[i].name = name
    THEN CHOOSE i \in DOMAIN vals :
             /\ vals[i].name = name
             /\ \A j \in DOMAIN vals : vals[j].name = name => i <= j
    ELSE 0

\* Scanning the cache whatever the flag says.
UsesCacheAlways(init) == TRUE

\* Fetching from the server whatever the flag says.
UsesCacheNever(init) == FALSE

\* "if self._initialized:" in get_instance
UsesCache(init) == init

QueryNames == NameSet \cup {NamePhantom}

\* CircuitService.get_instance(name), with g what circuit_get(name) does
\* if it is called.
GetInstanceWith(name, g) ==
    IF UsesCache(initialized)
    THEN LET d == discover_instances(State, NoResponse)
             vals == Values(d.instances)
             i == ScanByName(vals, name)
         IN  /\ instances' = d.instances
             /\ attrs' = d.attrs
             /\ initialized' = d.initialized
             /\ ret' = IF i # 0
                       THEN Result("get_instance", name, "ok", vals[i], <<>>, d, "none")
                       ELSE Result("get_instance", name, "IBMQCircuitNotFound", NoInst, <<>>, d, "none")
    ELSE IF g.err
    THEN /\ UNCHANGED <<instances, attrs, initialized>>
         /\ ret' = Result("get_instance", name, "RequestsApiError", NoInst, <<>>, NoDiscovery, "raised")
    ELSE LET conv == to_service_instance(instances, g.raw)
             added == add_instance(instances, attrs, conv.id, conv.inst)
         IN  IF conv.exc # "none"
             THEN /\ UNCHANGED <<instances, attrs, initialized>>
                  /\ ret' = Result("get_instance", name, conv.exc, NoInst, <<>>, NoDiscovery, "returned")
             ELSE /\ instances' = added.instances
                  /\ attrs' = added.attrs
                  /\ UNCHANGED initialized
                  /\ ret' = Result("get_instance", name, "ok", conv.inst, <<>>, NoDiscovery, "returned")

GetInstance ==
    \E name \in QueryNames :
        \/ initialized /\ GetInstanceWith(name, [err |-> TRUE, raw |-> NonDict])
        \/ /\ ~initialized
           /\ Len(instances) < MaxCache
           /\ \E g \in GetResponses(name) : GetInstanceWith(name, g)

\* add(id, instance): _add_instance called directly.
AddIds == {<<"b">>}

AddInsts == {StaleInst, OtherQInst}

AddInstance ==
    \E id \in AddIds, inst \in AddInsts :
        /\ HasKey(instances, id) \/ Len(instances) < MaxCache
        /\ LET added == add_instance(instances, attrs, id, inst)
           IN  /\ instances' = added.instances
               /\ attrs' = added.attrs
        /\ UNCHANGED initialized
        /\ ret' = Result("add", id, "ok", NoInst, <<>>, NoDiscovery, "none")

\* self._instances[id] = instance written by a caller, as the test suite
\* does: the __dict__ is not touched.
DirectWrite ==
    \E id \in AddIds :
        /\ HasKey(instances, id) \/ Len(instances) < MaxCache
        /\ instances' = Put(instances, id, StaleInst)
        /\ UNCHANGED <<attrs, initialized>>
        /\ ret' = Result("write", id, "ok", NoInst, <<>>, NoDiscovery, "none")

Next ==
    \/ Instances /\ UNCHANGED others
    \/ Refresh /\ UNCHANGED others
    \/ GetAttr /\ UNCHANGED others
    \/ GetInstance /\ UNCHANGED others
    \/ AddInstance /\ UNCHANGED others
    \/ DirectWrite /\ UNCHANGED others

Spec == Init /\ [][Next]_vars

\* dir(svc): __dir__ runs discovery and returns self.__dict__, whose
\* entries are the state attrs' here.
DirWith(resp) ==
    \E d \in {discover_instances(State, resp)} :
        /\ instances' = d.instances
        /\ attrs' = d.attrs
        /\ initialized' = d.initialized
        /\ ret' = Result("dir", <<>>, IF d.exc # "none" THEN d.exc ELSE "ok",
                         NoInst, <<>>, d, "none")

Dir ==
    \/ initialized /\ DirWith(NoResponse)
    \/ ~initialized /\ \E resp \in ListResponses : DirWith(resp)

\* The registry with every read operation, directory listing included.
ReadersNext ==
    \/ Next
    \/ Dir /\ UNCHANGED others

ReadersSpec == Init /\ [][ReadersNext]_vars

\* The registry with the operations of the class only: nothing writes the
\* cache from outside.
OperationsNext ==
    \/ Instances /\ UNCHANGED others
    \/ Refresh /\ UNCHANGED others
    \/ GetAttr /\ UNCHANGED others
    \/ GetInstance /\ UNCHANGED others
    \/ AddInstance /\ UNCHANGED others
    \/ Dir /\ UNCHANGED others

OperationsSpec == Init /\ [][OperationsNext]_vars

(***************************************************************************)
(* Argument validation: CircuitDefinition.instantiate and                  *)
(* IBMQCircuit.compile.  A message is a sequence of text pieces; parameter *)
(* names, type names and template names are pieces.  kwargs is the         *)
(* sequence of the keyword arguments in call order, with pairwise distinct *)
(* names; each carries the type of its value and the value as text.        *)
(***************************************************************************)
\* Most parameters a template declares.
MaxParams == 2

\* Most keyword arguments a call passes.
MaxKwargs == 2

TemplateNames == {"QFT", "Bell"}

ParameterDefinitions ==
    {[name |-> "num_qubits", type |-> "int", required |-> TRUE],
     [name |-> "num_qubits", type |-> "int", required |-> FALSE],
     [name |-> "depth", type |-> "str", required |-> TRUE],
     [name |-> "depth", type |-> "str", required |-> FALSE],
     [name |-> "depth", type |-> "array[int]", required |-> FALSE]}

Schemas == SeqsUpTo(ParameterDefinitions, MaxParams)

KwargNames == {"num_qubits", "depth", "phantom_arg", "bogus"}

KwargValues ==
    {[type |-> "int", text |-> "3"], [type |-> "str", text |-> "a"],
     [type |-> "list", text |-> "[1]"]}

KwargItems == {[name |-> n, type |-> v.type, text |-> v.text] : n \in KwargNames, v \in KwargValues}

KwargsSet ==
    {k \in SeqsUpTo(KwargItems, MaxKwargs) :
        \A i, j \in DOMAIN k : i # j => k[i].name # k[j].name}

InSeq(x, s) == \E i \in DOMAIN s : s[i] = x

Names(s) == [i \in DOMAIN s |-> s[i].name]

\* sep.join(pieces)
RECURSIVE join(_, _)
join(sep, pieces) ==
    IF Len(pieces) <= 1 THEN pieces
    ELSE <<Head(pieces), sep>> \o join(sep, Tail(pieces))

\* Reporting the first extra argument only.
extra_params_first(parameters, kwargs) ==
    LET param_names == Names(parameters)
        IsExtra(user_param) == ~InSeq(user_param, param_names)
        all == SelectSeq(Names(kwargs), IsExtra)
    IN  IF all = <<>> THEN <<>> ELSE <<Head(all)>>

\* "[user_param for user_param in kwargs if user_param not in param_names]"
extra_params(parameters, kwargs) ==
    LET param_names == Names(parameters)
        IsExtra(user_param) == ~InSeq(user_param, param_names)
    IN  SelectSeq(Names(kwargs), IsExtra)

\* Reporting the optional parameters that were not supplied as well.
missing_params_optional(parameters, kwargs) ==
    LET IsMissing(param) == ~InSeq(param.name, Names(kwargs))
    IN  Names(SelectSeq(parameters, IsMissing))

\* "[param.name for param in self.parameters
\*   if param.required and param.name not in kwargs]"
missing_params(parameters, kwargs) ==
    LET IsMissing(param) == param.required /\ ~InSeq(param.name, Names(kwargs))
    IN  Names(SelectSeq(parameters, IsMissing))

\* The instruction list of a circuit that holds no instruction.
NoData == <<>>

\* How a call ended: the exception raised or "ok", the exception's message,
\* the instruction list (QuantumCircuit.data) of the circuit instantiate
\* returned, the program compile returned, and the format of the response
\* that circuit_compile returned ("none" when it returned none).
Outcome(kind, message, data, program, format) ==
    [kind |-> kind, message |-> message, data |-> data, program |-> program,
     format |-> format]

\* '{}={}'.format(name, val) for every keyword argument.
remote_params(kwargs) == [i \in DOMAIN kwargs |-> <<kwargs[i].name, "=", kwargs[i].text>>]

\* RemoteGate(name, num_qubits, params): the constructor keeps params as
\* the bound arguments and marks the gate remote.
RemoteGate(name, num_qubits, params) ==
    [name |-> name, num_qubits |-> num_qubits, remote_params |-> params,
     is_remote |-> TRUE]

\* Counting the qubits from one.
range_from_one(n) == [i \in 1..n |-> i]

\* list(range(n))
range(n) == [i \in 1..n |-> i - 1]

\* QuantumCircuit.append(instruction, qargs) on the instruction list data.
append(data, instruction, qargs) == Append(data, [instr |-> instruction, qargs |-> qargs])

\* What the reference class of the circuit library does when it is
\* constructed with the arguments: it raises CircuitError or builds a
\* circuit on some number of qubits.
ReferenceCircuits ==
    {[err |-> TRUE, num_qubits |-> 0]} \cup {[err |-> FALSE, num_qubits |-> n] : n \in 1..2}

\* CircuitDefinition.instantiate(**kwargs) of the template self =
\* [name, parameters]; inLibrary says whether the circuit library has a
\* class of that name, ref is what constructing it does.
instantiate(self, kwargs, inLibrary, ref) ==
    LET extra == extra_params(self.parameters, kwargs)
        missing == missing_params(self.parameters, kwargs)
    IN  IF extra # <<>>
        THEN Outcome("IBMQCircuitBadArguments",
                     join(",", extra) \o <<" are not valid parameters for ", self.name>>,
                     NoData, "none", "none")
        ELSE IF missing # <<>>
        THEN Outcome("IBMQCircuitBadArguments",
                     <<"Required parameters ">> \o join(",", missing) \o <<" are missing.">>,
                     NoData, "none", "none")
        ELSE IF ~inLibrary
        THEN Outcome("CircuitReferenceNotFound",
                     <<"Unable to find a reference ", self.name, " circuit in circuit library.">>,
                     NoData, "none", "none")
        ELSE IF ref.err
        THEN Outcome("IBMQCircuitBadArguments", <<"str(cerr)">>, NoData, "none", "none")
        ELSE LET opaque_gate == [RemoteGate(self.name, ref.num_qubits, <<>>)
                                    EXCEPT !.remote_params = remote_params(kwargs)]
                 out_qx == append(NoData, opaque_gate, range(ref.num_qubits))
             IN  Outcome("ok", <<>>, out_qx, "none", "none")

\* "arg_dict = {arg.name: arg for arg in self.arguments}": the last
\* argument definition of a name is the one the dict keeps.
arg_dict(arguments, name) ==
    arguments[CHOOSE i \in DOMAIN arguments :
                  /\ arguments[i].name = name
                  /\ \A j \in DOMAIN arguments : arguments[j].name = name => j <= i]

\* The names that eval() resolves to a Python type.
PythonTypes == {"int", "str", "float", "bool"}

\* eval(type): the type of that name; for a text that is no expression
\* over defined names, such as 'array[int]', eval raises NameError.
eval(type) ==
    IF type \in PythonTypes THEN [exc |-> "none", type |-> type]
    ELSE [exc |-> "NameError", type |-> "none"]

\* isinstance(user_arg, arg_type) for the values and types at hand.
isinstance(user_arg, arg_type) == user_arg.type = arg_type

\* Checking no type at all.
type_mismatch_none(arguments, kwargs) == 0

\* The type-checking loop: the first keyword argument, in call order, at
\* which the loop raises (eval raises, or the value is not an instance of
\* the type its definition names); 0 when the loop ends without raising.
type_mismatch(arguments, kwargs) ==
    LET Raises(i) ==
            LET arg_type == eval(arg_dict(arguments, kwargs[i].name).type)
            IN  arg_type.exc # "none" \/ ~isinstance(kwargs[i], arg_type.type)
    IN  IF \E i \in DOMAIN kwargs : Raises(i)
        THEN CHOOSE i \in DOMAIN kwargs : Raises(i) /\ \A j \in 1..(i - 1) : ~Raises(j)
        ELSE 0

\* CircuitOutputType.QASM, the output format compile asks for.
CircuitOutputTypeQASM == "QASM"

Formats == {"QASM", "QASM3", "QOBJ"}

\* What circuit_compile does: raises RequestsApiError or returns a
\* response with a format and a circuit text, which from_qasm_str parses
\* or rejects.
CompileResponses ==
    {[err |-> TRUE, format |-> "none", parses |-> FALSE]}
        \cup {[err |-> FALSE, format |-> f, parses |-> b] : f \in Formats, b \in BOOLEAN}

\* Taking whatever format the server sent.
FormatAcceptedAlways(format) == TRUE

\* "if raw_response['format'] != CircuitOutputType.QASM: raise"
FormatAccepted(format) == format = CircuitOutputTypeQASM

\* IBMQCircuit.compile(**kwargs) of the circuit self = [name, parameters],
\* with resp what circuit_compile does if it is called.
compile(self, kwargs, resp) ==
    LET extra == extra_params(self.parameters, kwargs)
        missing == missing_params(self.parameters, kwargs)
    IN  IF extra # <<>>
        THEN Outcome("IBMQCircuitBadArguments",
                     join(",", extra) \o <<" are not valid arguments for ", self.name>>,
                     NoData, "none", "none")
        ELSE IF missing # <<>>
        THEN Outcome("IBMQCircuitBadArguments",
                     <<"Required arguments ">> \o join(",", missing) \o <<" are missing.">>,
                     NoData, "none", "none")
        ELSE LET bad == type_mismatch(self.parameters, kwargs)
             IN  IF bad # 0 /\ eval(arg_dict(self.parameters, kwargs[bad].name).type).exc # "none"
                 THEN Outcome(eval(arg_dict(self.parameters, kwargs[bad].name).type).exc,
                              <<>>, NoData, "none", "none")
                 ELSE IF bad # 0
                 THEN Outcome("IBMQCircuitBadArguments",
                              <<"Argument ", kwargs[bad].name, " should be type ",
                                eval(arg_dict(self.parameters, kwargs[bad].name).type).type,
                                ", not ", kwargs[bad].type>>,
                              NoData, "none", "none")
                 ELSE IF resp.err
                 THEN Outcome("RequestsApiError", <<>>, NoData, "none", "none")
                 ELSE IF ~FormatAccepted(resp.format)
                 THEN Outcome("ApiIBMQProtocolError",
                              <<"Invalid output format ", resp.format,
                                " received from the server.">>,
                              NoData, "none", resp.format)
                 ELSE IF ~resp.parses
                 THEN Outcome("QasmError", <<>>, NoData, "none", resp.format)
                 ELSE Outcome("ok", <<>>, NoData, "circuit", resp.format)

\* The record of a call of instantiate or compile: what it was given, what
\* the collaborators did, and how it ended.
Called(op, self, kwargs, out) ==
    [op |-> op, name |-> self.name, parameters |-> self.parameters, kwargs |-> kwargs,
     format |-> out.format, kind |-> out.kind, message |-> out.message, data |-> out.data,
     program |-> out.program]

Templates == [name : TemplateNames, parameters : Schemas]

\* A call that has been made and has not run yet.
Pending(self, kwargs) ==
    [op |-> "pending", name |-> self.name, parameters |-> self.parameters, kwargs |-> kwargs,
     format |-> "none", kind |-> "none", message |-> <<>>, data |-> NoData,
     program |-> "none"]

\* A fresh registry, on which no operation has run.
Fresh ==
    /\ instances = <<>>
    /\ attrs = {}
    /\ initialized = FALSE
    /\ ret = Result("init", <<>>, "ok", NoInst, <<>>, NoDiscovery, "none")

ValidationInit ==
    /\ Fresh
    /\ threads = NoThreads
    /\ call \in {Pending(self, kwargs) : self \in Templates, kwargs \in KwargsSet}

Instantiate ==
    /\ call.op = "pending"
    /\ \E inLibrary \in BOOLEAN, ref \in ReferenceCircuits :
           call' = Called("instantiate", call, call.kwargs,
                          instantiate(call, call.kwargs, inLibrary, ref))
    /\ UNCHANGED <<vars, threads>>

Compile ==
    /\ call.op = "pending"
    /\ \E resp \in CompileResponses :
           call' = Called("compile", call, call.kwargs,
                          compile(call, call.kwargs, resp))
    /\ UNCHANGED <<vars, threads>>

ValidationNext == Instantiate \/ Compile

ValidationSpec == ValidationInit /\ [][ValidationNext]_allvars

(***************************************************************************)
(* The remote gate and its OpenQASM text: RemoteGate.qasm.  A text that    *)
(* the code takes apart (lower(), split(), startswith()) is a sequence of  *)
(* one-character strings.                                                  *)
(***************************************************************************)
\* Most qubits a remote gate acts on.
MaxQubits == 2

\* Most bound arguments a remote gate carries.
MaxBound == 2

\* '// PRAGMA remote-circuit'
PragmaMarker ==
    <<"/", "/", " ", "P", "R", "A", "G", "M", "A", " ",
      "r", "e", "m", "o", "t", "e", "-", "c", "i", "r", "c", "u", "i", "t">>

\* 'opaque'
OpaqueKeyword == <<"o", "p", "a", "q", "u", "e">>

UpperCase == <<"Q", "F", "T", "O", "P", "A", "U", "E", "X">>

LowerCase == <<"q", "f", "t", "o", "p", "a", "u", "e", "x">>

\* Leaving the case as it is.
lower_unchanged(text) == text

\* str.lower()
lower(text) ==
    [i \in DOMAIN text |->
        IF \E k \in DOMAIN UpperCase : UpperCase[k] = text[i]
        THEN LowerCase[CHOOSE k \in DOMAIN UpperCase : UpperCase[k] = text[i]]
        ELSE text[i]]

DecimalDigits == <<"0", "1", "2", "3", "4", "5", "6", "7", "8", "9">>

\* str(digit) of a natural number.
RECURSIVE str(_)
str(n) ==
    IF n < 10 THEN <<DecimalDigits[n + 1]>>
    ELSE str(n \div 10) \o <<DecimalDigits[(n % 10) + 1]>>

\* The texts of a sequence one after the other.
RECURSIVE concat(_)
concat(texts) == IF texts = <<>> THEN <<>> ELSE Head(texts) \o concat(Tail(texts))

\* sep.join(texts), sep one character.
join_text(sep, texts) == concat(join(<<sep>>, texts))

\* '// PRAGMA remote-circuit {}({})'.format(name, ','.join(params))
pragma_line(name, params) ==
    PragmaMarker \o <<" ">> \o name \o <<"(">> \o join_text(",", params) \o <<")">>

\* 'opaque {} {};'.format(name.lower(), ','.join("q"+str(digit) ...))
opaque_line(name, num_qubits) ==
    OpaqueKeyword \o <<" ">> \o lower(name) \o <<" ">>
        \o join_text(",", [d \in 1..num_qubits |-> <<"q">> \o str(d - 1)]) \o <<";">>

\* RemoteGate.qasm() of the gate self = [name, num_qubits, remote_params].
qasm(self) ==
    pragma_line(self.name, self.remote_params)
        \o <<"\n">> \o opaque_line(self.name, self.num_qubits)
        \o <<"\n">> \o PragmaMarker
        \o <<"\n">> \o lower(self.name)

\* text.split(sep), sep one character: the pieces between the separators.
RECURSIVE split(_, _)
split(text, sep) ==
    IF \A i \in DOMAIN text : text[i] # sep THEN <<text>>
    ELSE LET k == CHOOSE i \in DOMAIN text :
                      text[i] = sep /\ \A j \in 1..(i - 1) : text[j] # sep
         IN  <<SubSeq(text, 1, k - 1)>> \o split(SubSeq(text, k + 1, Len(text)), sep)

GateNames == {<<"Q", "F", "T">>, <<"q", "f", "t">>}

\* Bound arguments as instantiate formats them ("name=value"); the value
\* of the last one is a text that holds a comma.
BoundArguments ==
    {<<"a", "=", "1">>, <<"b", "=", "2">>, <<"a", "=", "1", ",", "b", "=", "2">>}

RemoteGates ==
    [name : GateNames, num_qubits : 0..MaxQubits,
     remote_params : SeqsUpTo(BoundArguments, MaxBound)]

\* Two remote gates and the texts of those whose qasm() has run.
EncoderInit ==
    /\ Fresh
    /\ threads = NoThreads
    /\ call \in {[op |-> "pending", gates |-> <<g, h>>, blocks |-> <<>>] :
                    g \in RemoteGates, h \in RemoteGates}

Qasm ==
    /\ call.op \in {"pending", "qasm"}
    /\ Len(call.blocks) < Len(call.gates)
    /\ call' = [call EXCEPT !.op = "qasm",
                            !.blocks = Append(@, qasm(call.gates[Len(@) + 1]))]
    /\ UNCHANGED <<vars, threads>>

EncoderNext == Qasm

EncoderSpec == EncoderInit /\ [][EncoderNext]_allvars

(***************************************************************************)
(* CircuitService.run: the pass over the OpenQASM text of every circuit    *)
(* that removes duplicate opaque declarations.  A circuit is the sequence  *)
(* of its instructions; its text is what QuantumCircuit.qasm() returns:    *)
(* the header, the include, the register, one statement per instruction    *)
(* (the instruction's qasm(), a blank, the qubits and a semicolon) and a   *)
(* line break at the end.                                                  *)
(***************************************************************************)
\* Most instructions of a circuit.
MaxInstructions == 3

\* 'OPENQASM 2.0'
OldHeader == <<"O", "P", "E", "N", "Q", "A", "S", "M", " ", "2", ".", "0">>

\* 'OPENQASM 2.5;'
NewHeader == <<"O", "P", "E", "N", "Q", "A", "S", "M", " ", "2", ".", "5", ";">>

HeaderLine == OldHeader \o <<";">>

\* 'include "qelib1.inc";'
IncludeLine ==
    <<"i", "n", "c", "l", "u", "d", "e", " ", "\"", "q", "e", "l", "i", "b", "1",
      ".", "i", "n", "c", "\"", ";">>

\* 'qreg q[1];'
RegisterLine == <<"q", "r", "e", "g", " ", "q", "[", "1", "]", ";">>

\* 'q[0]'
QubitArgs == <<"q", "[", "0", "]">>

\* 'h q[0];'
LocalStatement == <<"h", " ">> \o QubitArgs \o <<";">>

NameOpaqueX == <<"O", "p", "a", "q", "u", "e", "X">>

\* The instructions of a circuit: a gate of the standard library, or a
\* remote gate on one qubit.
Instructions ==
    {[remote |-> FALSE, name |-> <<"h">>, num_qubits |-> 1, remote_params |-> <<>>]}
        \cup {[remote |-> TRUE, name |-> n, num_qubits |-> 1, remote_params |-> a] :
                 n \in {<<"Q", "F", "T">>, NameOpaqueX},
                 a \in {<<<<"a", "=", "1">>>>}}

Circuits == SeqsUpTo(Instructions, MaxInstructions)

\* The statement of one instruction.
statement(instr) ==
    IF instr.remote THEN qasm(instr) \o <<" ">> \o QubitArgs \o <<";">>
    ELSE LocalStatement

\* QuantumCircuit.qasm()
circuit_qasm(circ) ==
    HeaderLine \o <<"\n">> \o IncludeLine \o <<"\n">> \o RegisterLine \o <<"\n">>
        \o concat([i \in DOMAIN circ |-> statement(circ[i]) \o <<"\n">>])

\* What each line of the text of an instruction is.
LineRoles(instr) ==
    IF instr.remote THEN <<"pragma", "opaque", "marker", "usage">> ELSE <<"local">>

\* What each line of circ.qasm().split('\n') is.
circuit_roles(circ) ==
    <<"header", "include", "register">>
        \o concat([i \in DOMAIN circ |-> LineRoles(circ[i])]) \o <<"end">>

\* line.startswith(prefix)
startswith(line, prefix) ==
    Len(line) >= Len(prefix) /\ SubSeq(line, 1, Len(prefix)) = prefix

\* line.split(): the pieces between runs of blanks, none of them empty.
split_blanks(line) ==
    LET IsToken(piece) == piece # <<>>
    IN  SelectSeq(split(line, " "), IsToken)

\* init_qasm[index - 1] for the index of the enumeration, which starts at
\* 0: before the first line, Python's index -1 is the last line.
previous_line(init_qasm, i) == IF i = 1 THEN init_qasm[Len(init_qasm)] ELSE init_qasm[i - 1]

\* Keeping every declaration.
already_declared_never(gate_name, opaque_gates) == FALSE

\* "if gate_name in opaque_gates: continue"
already_declared(gate_name, opaque_gates) == InSeq(gate_name, opaque_gates)

\* "line.startswith('opaque') and
\*  init_qasm[index-1].startswith('// PRAGMA remote-circuit')"
is_declaration(line, previous) ==
    startswith(line, OpaqueKeyword) /\ startswith(previous, PragmaMarker)

\* Leaving the header as it is.
version_header_kept(line) == line

\* "if line.startswith('OPENQASM 2.0'): line = 'OPENQASM 2.5;'"
version_header(line) == IF startswith(line, OldHeader) THEN NewHeader ELSE line

\* The loop over the lines of one circuit from line i on.  kept is the
\* positions of the lines that were appended to final_qasm.
RECURSIVE dedup_loop(_, _, _, _, _)
dedup_loop(init_qasm, i, final_qasm, opaque_gates, kept) ==
    IF i > Len(init_qasm)
    THEN [exc |-> "none", final_qasm |-> final_qasm, opaque_gates |-> opaque_gates,
          kept |-> kept]
    ELSE LET line == version_header(init_qasm[i])
             tokens == split_blanks(line)
         IN  IF ~is_declaration(line, previous_line(init_qasm, i))
             THEN dedup_loop(init_qasm, i + 1, Append(final_qasm, line), opaque_gates,
                             Append(kept, i))
             ELSE IF Len(tokens) < 2
             THEN [exc |-> "IndexError", final_qasm |-> final_qasm,
                   opaque_gates |-> opaque_gates, kept |-> kept]
             ELSE IF already_declared(tokens[2], opaque_gates)
             THEN dedup_loop(init_qasm, i + 1, final_qasm, opaque_gates, kept)
             ELSE dedup_loop(init_qasm, i + 1, Append(final_qasm, line),
                             Append(opaque_gates, tokens[2]), Append(kept, i))

\* Going on with the names the circuits before this one declared.
opaque_gates_carried(declared) == declared

\* "opaque_gates = []" at the start of every circuit
opaque_gates_reset(declared) == <<>>

\* The loop "for circ in circuits" from circuit k on: the texts appended
\* to qasm_strs, and for every circuit the positions of the lines kept.
RECURSIVE run_loop(_, _, _, _, _)
run_loop(circuits, k, qasm_strs, kept, declared) ==
    IF k > Len(circuits) THEN [exc |-> "none", qasm_strs |-> qasm_strs, kept |-> kept]
    ELSE LET init_qasm == split(circuit_qasm(circuits[k]), "\n")
             pass == dedup_loop(init_qasm, 1, <<>>, opaque_gates_reset(declared), <<>>)
         IN  IF pass.exc # "none"
             THEN [exc |-> pass.exc, qasm_strs |-> qasm_strs, kept |-> kept]
             ELSE run_loop(circuits, k + 1,
                           Append(qasm_strs, join_text("\n", pass.final_qasm)),
                           Append(kept, pass.kept), pass.opaque_gates)

\* A single circuit, which run wraps in a list, or a list of two.
Submissions ==
    {<<c>> : c \in Circuits} \cup {<<c, d>> : c \in Circuits, d \in Circuits}

\* What run is given as circuits: a QuantumCircuit by itself, or a list.
Arguments ==
    {[quantumCircuit |-> TRUE, value |-> c] : c \in Circuits}
        \cup {[quantumCircuit |-> FALSE, value |-> sub] : sub \in Submissions}

\* "if isinstance(circuits, QuantumCircuit): circuits = [circuits]"
as_list(circuits) == IF circuits.quantumCircuit THEN <<circuits.value>> ELSE circuits.value

\* Calling circuit_user_execute once for every text.
execute_each(calls, qasm_strs) ==
    calls \o [k \in DOMAIN qasm_strs |-> <<qasm_strs[k]>>]

\* "self._api_client.circuit_user_execute(qobj_config, qasm_strs)": calls
\* is the list of the calls made, each with the texts it was handed.
circuit_user_execute(calls, qasm_strs) == Append(calls, qasm_strs)

AssemblerInit ==
    /\ Fresh
    /\ threads = NoThreads
    /\ call \in {[op |-> "pending", arg |-> a, circuits |-> <<>>, kind |-> "none",
                  qasm_strs |-> <<>>, kept |-> <<>>, calls |-> <<>>] : a \in Arguments}

\* CircuitService.run(circuits, backend, shots) up to the call of
\* circuit_user_execute, which is not reached when the loop raises.
Run ==
    /\ call.op = "pending"
    /\ \E r \in {run_loop(as_list(call.arg), 1, <<>>, <<>>, <<>>)} :
           call' = [call EXCEPT !.op = "run",
                                !.circuits = as_list(call.arg),
                                !.kind = IF r.exc = "none" THEN "ok" ELSE r.exc,
                                !.qasm_strs = r.qasm_strs,
                                !.kept = r.kept,
                                !.calls = IF r.exc = "none"
                                          THEN circuit_user_execute(@, r.qasm_strs)
                                          ELSE @]
    /\ UNCHANGED <<vars, threads>>

AssemblerNext == Run

AssemblerSpec == AssemblerInit /\ [][AssemblerNext]_allvars

(***************************************************************************)
(* The pass of run over one program given as its lines: run calls qasm()   *)
(* of whatever object it is handed and works on the lines of the text it   *)
(* gets, so the lines can be any.  The pass is run on a program and then   *)
(* on its own output.                                                      *)
(***************************************************************************)
\* Most lines of a program.
MaxLines == 5

\* 'opaque f q0;' and 'opaque b q0;'
OpaqueF == OpaqueKeyword \o <<" ", "f", " ", "q", "0", ";">>

OpaqueB == OpaqueKeyword \o <<" ", "b", " ", "q", "0", ";">>

\* 'f q[0];'
UsageF == <<"f", " ">> \o QubitArgs \o <<";">>

\* The lines of the programs: the header, a line that starts with the
\* pragma marker, two opaque lines and a statement.
ProgramLines == {HeaderLine, PragmaMarker, OpaqueF, OpaqueB, UsageF}

\* The texts that qasm() returns: one to MaxLines lines.
ProgramTexts ==
    {join_text("\n", lines) : lines \in SeqsUpTo(ProgramLines, MaxLines) \ {<<>>}}

\* The body of the loop "for circ in circuits" for one text: the text
\* appended to qasm_strs, the positions of the lines kept and the names
\* declared at the end.
dedup_pass(text) ==
    LET init_qasm == split(text, "\n")
        pass == dedup_loop(init_qasm, 1, <<>>, opaque_gates_reset(<<>>), <<>>)
    IN  [exc |-> pass.exc, init_qasm |-> init_qasm,
         text |-> join_text("\n", pass.final_qasm),
         kept |-> pass.kept, opaque_gates |-> pass.opaque_gates]

LinesInit ==
    /\ Fresh
    /\ threads = NoThreads
    /\ call \in {[op |-> "pending", text |-> t, passes |-> <<>>] : t \in ProgramTexts}

\* run on one program with the text call.text.
Dedup ==
    /\ call.op = "pending"
    /\ call' = [call EXCEPT !.op = "dedup", !.passes = <<dedup_pass(call.text)>>]
    /\ UNCHANGED <<vars, threads>>

\* run on one program whose text is the output of the first run.
DedupAgain ==
    /\ call.op = "dedup"
    /\ call.passes[1].exc = "none"
    /\ call' = [call EXCEPT !.op = "again",
                            !.passes = Append(@, dedup_pass(call.passes[1].text))]
    /\ UNCHANGED <<vars, threads>>

LinesNext == Dedup \/ DedupAgain

LinesSpec == LinesInit /\ [][LinesNext]_allvars

(***************************************************************************)
(* Two callers in _discover_instances on one registry at the same time.    *)
(* The registry has no lock: a caller can be preempted between any two of  *)
(* the statements of _discover_instances, which are the steps below.  The  *)
(* server's listing does not change between the two listing calls.         *)
(* threads holds that listing, the number of listing calls made and of     *)
(* those that raised, whether the second caller started while the first    *)
(* was under way, and for each                                             *)
(* caller its position (pc), the index of the item it is at (i) and the    *)
(* identifier it has computed for it (id).                                 *)
(***************************************************************************)
\* Longest listing the server returns to the concurrent callers.
MaxListed == 2

Callers == 1..2

ListedItems == OkRecords \cup {NonDict}

Caller(pc, i, id) == [pc |-> pc, i |-> i, id |-> id]

ConcurrentInit ==
    /\ Fresh
    /\ call = NoCall
    /\ threads \in {[listing |-> l, listed |-> 0, errors |-> 0, overlapped |-> FALSE,
                     callers |-> [t \in Callers |-> Caller("idle", 0, <<>>)]] :
                       l \in SeqsUpTo(ListedItems, MaxListed)}

At(t, pc) == threads.callers[t].pc = pc

Goto(t, pc, i, id) == [threads EXCEPT !.callers[t] = Caller(pc, i, id)]

UnderWay(t) == threads.callers[t].pc \notin {"idle", "done"}

\* The position after item i has been dealt with.
AfterItem(t, i) ==
    IF i >= Len(threads.listing) THEN Goto(t, "update", 0, <<>>)
    ELSE Goto(t, "convert", i + 1, <<>>)

\* "if not self._initialized:"
CheckFlag(t) ==
    /\ At(t, "idle")
    /\ threads' = [Goto(t, IF NeedsDiscovery(initialized) THEN "delete" ELSE "done", 0, <<>>)
                      EXCEPT !.overlapped = @ \/ \E u \in Callers \ {t} : UnderWay(u)]
    /\ UNCHANGED <<instances, attrs, initialized, ret, call>>

\* "self._delete_all_instances()"
DeleteAll(t) ==
    /\ At(t, "delete")
    /\ attrs' = delete_all_instances(attrs, instances)
    /\ instances' = <<>>
    /\ threads' = Goto(t, "list", 0, <<>>)
    /\ UNCHANGED <<initialized, ret, call>>

\* "self._list_instances()": it raises RequestsApiError, and the caller
\* returns, or it returns the listing.
ListInstances(t) ==
    /\ At(t, "list")
    /\ \E err \in BOOLEAN :
           threads' = [(IF err THEN Goto(t, "done", 0, <<>>) ELSE AfterItem(t, 0))
                          EXCEPT !.listed = @ + 1,
                                 !.errors = IF err THEN @ + 1 ELSE @]
    /\ UNCHANGED <<instances, attrs, initialized, ret, call>>

\* "if not isinstance(raw_config, dict): continue", else
\* "inst_id, instance = self._to_service_instance(raw_config)"
Convert(t) ==
    /\ At(t, "convert")
    /\ LET i == threads.callers[t].i
           raw == threads.listing[i]
       IN  threads' = IF SkipItem(raw) THEN AfterItem(t, i)
                      ELSE Goto(t, "store", i, to_service_instance(instances, raw).id)
    /\ UNCHANGED <<instances, attrs, initialized, ret, call>>

\* "self._instances[inst_id] = instance"
Store(t) ==
    /\ At(t, "store")
    /\ LET i == threads.callers[t].i
       IN  /\ instances' = Put(instances, threads.callers[t].id,
                               CircuitDefinition(threads.listing[i]))
           /\ threads' = AfterItem(t, i)
    /\ UNCHANGED <<attrs, initialized, ret, call>>

\* "self.__dict__.update(self._instances)"
UpdateDict(t) ==
    /\ At(t, "update")
    /\ attrs' = AttrUpdate(attrs, instances)
    /\ threads' = Goto(t, "flag", 0, <<>>)
    /\ UNCHANGED <<instances, initialized, ret, call>>

\* "self._initialized = True"
SetFlag(t) ==
    /\ At(t, "flag")
    /\ initialized' = TRUE
    /\ threads' = Goto(t, "done", 0, <<>>)
    /\ UNCHANGED <<instances, attrs, ret, call>>

ConcurrentNext ==
    \E t \in Callers :
        \/ CheckFlag(t)
        \/ DeleteAll(t)
        \/ ListInstances(t)
        \/ Convert(t)
        \/ Store(t)
        \/ UpdateDict(t)
        \/ SetFlag(t)

ConcurrentSpec == ConcurrentInit /\ [][ConcurrentNext]_allvars

(***************************************************************************)
(* Properties of the registry                                              *)
(***************************************************************************)
Entries(c) == {c[i] : i \in DOMAIN c}

WellFormed(raw) == raw.isdict /\ raw.keys = AllKeys

\* The definitions of the well-formed records of a listing, in listing order.
RECURSIVE Converted(_)
Converted(items) ==
    IF items = <<>> THEN <<>>
    ELSE IF WellFormed(Head(items))
    THEN <<[name |-> Head(items).name, desc |-> Head(items).desc]>> \o Converted(Tail(items))
    ELSE Converted(Tail(items))

\* id is base followed by markers only.
IsMarkerExtension(base, id) ==
    /\ Len(id) >= Len(base)
    /\ SubSeq(id, 1, Len(base)) = base
    /\ \A k \in (Len(base) + 1)..Len(id) : id[k] = Marker

\* The last call ran a discovery that went through the whole listing.
DiscoveryCompleted == ret.listed = 1 /\ ~ret.listErr /\ ret.kind \notin {"KeyError", "TypeError"}

\* C1: idempotent discovery.  instances() on an initialized registry makes
\* no listing call, leaves the cache, the attributes and the flag as they
\* are, and returns the cached collection, which is what the instances()
\* call before it returned; the instances() call that initializes the
\* registry makes exactly one listing call, so two calls in a row make one.
IdempotentDiscovery ==
    [][/\ (ret'.op = "instances" /\ initialized) =>
              /\ ret'.listed = 0
              /\ UNCHANGED <<instances, attrs, initialized>>
              /\ ret'.kind = "ok"
              /\ ret'.insts = Values(instances)
              /\ (ret.op = "instances" => ret'.insts = ret.insts /\ ret.listed + ret'.listed <= 1)
       /\ (ret'.op = "instances" /\ ~initialized /\ initialized') => ret'.listed = 1
      ]_vars

\* instances() was called on a registry that a discovery had filled.
IdempotentDiscoveryWitness ==
    /\ ret.op = "instances"
    /\ initialized
    /\ ret.listed = 0
    /\ Len(ret.insts) >= 2

\* C2: identifier uniqueness.  After a discovery that went through its
\* listing, the cache holds one entry per well-formed listed record, in
\* listing order, under pairwise distinct identifiers; each identifier is
\* the sanitized name followed by the fewest markers that no earlier entry
\* uses; every entry is an attribute too, and nothing else is.
IdentifierUniqueness ==
    DiscoveryCompleted =>
        /\ initialized
        /\ Values(instances) = Converted(ret.listing)
        /\ Cardinality(Keys(instances)) = Len(Converted(ret.listing))
        /\ \A i \in DOMAIN instances :
               LET base == to_python_identifier(instances[i].inst.name)
                   id == instances[i].id
               IN  /\ IsMarkerExtension(base, id)
                   /\ \A m \in Len(base)..(Len(id) - 1) :
                          \E j \in 1..(i - 1) : instances[j].id = SubSeq(id, 1, m)
        /\ attrs = Entries(instances)

\* A discovery resolved a collision of a collision: "q_" was taken both
\* as "q" plus marker and as the sanitized "q-".
IdentifierUniquenessWitness ==
    /\ DiscoveryCompleted
    /\ \E i, j \in DOMAIN instances :
           /\ instances[i].id = <<"q", "_", "_">>
           /\ instances[j].id = <<"q", "_">>
           /\ instances[j].inst.name # instances[i].inst.name

\* C3: refresh invalidation.  When refresh() has returned or raised, every
\* entry of the cache and every mirrored attribute was converted from a
\* well-formed record of the listing of that refresh, so no entry with a
\* name the listing lacks remains, however it got into the cache.
RefreshInvalidation ==
    ret.op = "refresh" =>
        /\ \A e \in Entries(instances) \cup attrs :
               \E k \in DOMAIN ret.listing :
                   /\ WellFormed(ret.listing[k])
                   /\ e.inst = [name |-> ret.listing[k].name, desc |-> ret.listing[k].desc]
        /\ (initialized => Values(instances) = Converted(ret.listing))

\* refresh() ran on a registry that held a stale entry and filled it again.
RefreshInvalidationWitness ==
    /\ ret.op = "refresh"
    /\ ret.stale
    /\ initialized
    /\ instances # <<>>

\* C4: get_instance(name) on an initialized registry makes no collaborator
\* call, returns the first cached instance named name, and raises
\* IBMQCircuitNotFound for name when no cached instance has that name.
GetByNameInitialized ==
    (ret.op = "get_instance" /\ initialized) =>
        /\ ret.listed = 0
        /\ ret.fetched = 0
        /\ IF \E i \in DOMAIN instances : instances[i].inst.name = ret.arg
           THEN /\ ret.kind = "ok"
                /\ \E i \in DOMAIN instances :
                       /\ instances[i].inst.name = ret.arg
                       /\ \A j \in 1..(i - 1) : instances[j].inst.name # ret.arg
                       /\ ret.inst = instances[i].inst
           ELSE ret.kind = "IBMQCircuitNotFound"

\* A lookup by name chose between two cached instances of that name.
GetByNameInitializedWitness ==
    /\ ret.op = "get_instance"
    /\ initialized
    /\ ret.kind = "ok"
    /\ \E i, j \in DOMAIN instances :
           /\ i < j
           /\ instances[i].inst.name = ret.arg
           /\ instances[j].inst.name = ret.arg
           /\ instances[i].inst # instances[j].inst

GetByNameDiscoversFirst ==
    (ret.op = "get_instance" /\ ret.kind = "ok") => (initialized /\ ret.fetched = 0)

\* C6, amended: get_instance(name) on an uninitialized registry runs no
\* discovery: it makes no listing call and one single-name fetch, whatever
\* the cache holds, and the registry is uninitialized when it returns or
\* raises; only on an initialized registry does it make no fetch.
GetByNameSkipsDiscovery ==
    ret.op = "get_instance" =>
        /\ ret.listed = 0
        /\ ret.listing = <<>>
        /\ (ret.fetched = 1) <=> ~initialized
        /\ (ret.fetched = 0) <=> initialized

\* A name that the uninitialized cache already held was fetched again.
GetByNameSkipsDiscoveryWitness ==
    /\ ret.op = "get_instance"
    /\ ret.kind = "ok"
    /\ ~initialized
    /\ ret.fetched = 1
    /\ \E i, j \in DOMAIN instances :
           i # j /\ instances[i].inst.name = ret.arg /\ instances[j].inst.name = ret.arg

\* C7: when list_circuits() raises during a discovery, the read that ran
\* it does not raise that error (instances() returns, with an empty
\* list), the registry is uninitialized with an empty cache, and the next
\* instances() or attribute read calls list_circuits() again.
ListingFailureRetried ==
    [][/\ ret'.listErr =>
              /\ ~initialized'
              /\ instances' = <<>>
              /\ ret'.kind # "RequestsApiError"
              /\ (ret'.op = "instances" => ret'.kind = "ok" /\ ret'.insts = <<>>)
       /\ (ret.listErr /\ ret'.op \in {"instances", "getattr"}) => ret'.listed = 1
      ]_vars

\* instances() returned although its listing call had failed.
ListingFailureRetriedWitness ==
    /\ ret.op = "instances"
    /\ ret.listErr
    /\ ret.kind = "ok"
    /\ ~initialized

\* C8, as stated: a discovery whose listing call returned goes through
\* the whole listing whatever items it holds: it raises nothing, ends
\* initialized, and has cached every well-formed record.
MalformedItemsSkipped ==
    (ret.listed = 1 /\ ~ret.listErr) =>
        /\ ret.kind \notin {"KeyError", "TypeError"}
        /\ initialized
        /\ Values(instances) = Converted(ret.listing)

\* C9, as stated: an attribute read on an uninitialized registry runs a
\* discovery; unless the discovery raised, the read returns the instance
\* cached under the identifier, whose name sanitizes to the identifier's
\* base, and raises AttributeError when the cache has no such identifier.
AttributeReadDiscovers ==
    [][ret'.op = "getattr" =>
           /\ ~initialized => ret'.listed = 1
           /\ ret'.kind \notin {"KeyError", "TypeError"} =>
                  IF HasKey(instances', ret'.arg)
                  THEN /\ ret'.kind = "ok"
                       /\ ret'.inst = Lookup(instances', ret'.arg)
                       /\ IsMarkerExtension(to_python_identifier(ret'.inst.name), ret'.arg)
                  ELSE ret'.kind = "AttributeError"
      ]_vars

\* C10: a get_instance(name) that returns on an uninitialized registry
\* made one single-name fetch and no listing call, returns a definition
\* named name, has appended it to the cache under an identifier that is
\* the sanitized name plus markers, has made it an attribute under that
\* identifier, has changed no other entry, and leaves the registry
\* uninitialized.
SingleFetchCached ==
    [][(ret'.op = "get_instance" /\ ~initialized /\ ret'.kind = "ok") =>
           /\ ret'.fetched = 1
           /\ ret'.listed = 0
           /\ ret'.inst.name = ret'.arg
           /\ ~initialized'
           /\ \E id \in {instances'[Len(instances')].id} :
                  /\ IsMarkerExtension(to_python_identifier(ret'.arg), id)
                  /\ instances' = Append(instances, [id |-> id, inst |-> ret'.inst])
                  /\ attrs' = attrs \cup {[id |-> id, inst |-> ret'.inst]}
                  /\ ~HasAttr(attrs, id)
      ]_vars

\* The fetched definition of "q-" is cached and mirrored under "q_".
SingleFetchCachedWitness ==
    /\ ret.op = "get_instance"
    /\ ret.kind = "ok"
    /\ ~initialized
    /\ ret.inst.name = NameQDash
    /\ [id |-> <<"q", "_">>, inst |-> ret.inst] \in attrs
    /\ HasKey(instances, <<"q", "_">>)

(***************************************************************************)
(* Properties of argument validation                                       *)
(***************************************************************************)
Ran == call.op \in {"instantiate", "compile"}

\* How often piece x occurs in message m.
Occurrences(x, m) == Cardinality({i \in DOMAIN m : m[i] = x})

Declared == {call.parameters[i].name : i \in DOMAIN call.parameters}

Supplied == {call.kwargs[i].name : i \in DOMAIN call.kwargs}

ExtraSupplied == Supplied \ Declared

RequiredMissing == {call.parameters[i].name : i \in {j \in DOMAIN call.parameters : call.parameters[j].required}} \ Supplied

\* The call failed in the validation of the argument names.
NameValidationFailed ==
    /\ call.kind = "IBMQCircuitBadArguments"
    /\ \E i \in DOMAIN call.message :
           call.message[i] \in {" are not valid parameters for ", " are not valid arguments for ",
                                "Required parameters ", "Required arguments "}

\* C11: a call of instantiate or compile that passes a keyword argument
\* whose name no parameter declares raises IBMQCircuitBadArguments, whose
\* message holds every extra name once, the names joined by commas, and
\* the name of the template, and holds no name that is declared.
ExtraArgumentsReported ==
    (Ran /\ ExtraSupplied # {}) =>
        /\ call.kind = "IBMQCircuitBadArguments"
        /\ \A x \in ExtraSupplied : Occurrences(x, call.message) = 1
        /\ Occurrences(",", call.message) = Cardinality(ExtraSupplied) - 1
        /\ Occurrences(call.name, call.message) = 1
        /\ \A x \in Declared : Occurrences(x, call.message) = 0

\* instantiate was called with two extra names.
ExtraArgumentsReportedWitness ==
    /\ call.op = "instantiate"
    /\ Cardinality(ExtraSupplied) = 2
    /\ call.kind = "IBMQCircuitBadArguments"
    /\ RequiredMissing = {}

\* C12: a call that passes no extra name and leaves out a required
\* parameter raises IBMQCircuitBadArguments, whose message holds every
\* missing required name and no other parameter name; a call that passes no
\* extra name and leaves out optional parameters only does not fail in the
\* validation of the names.
MissingRequiredReported ==
    (Ran /\ ExtraSupplied = {}) =>
        IF RequiredMissing # {}
        THEN /\ call.kind = "IBMQCircuitBadArguments"
             /\ \A x \in RequiredMissing : Occurrences(x, call.message) >= 1
             /\ \A x \in Declared \ RequiredMissing : Occurrences(x, call.message) = 0
        ELSE ~NameValidationFailed

\* A call left out the two required parameters.
MissingRequiredReportedWitness ==
    /\ Ran
    /\ ExtraSupplied = {}
    /\ Cardinality(RequiredMissing) = 2
    /\ call.kind = "IBMQCircuitBadArguments"

\* C13, as stated: a call that passes extra names and leaves out required
\* parameters raises IBMQCircuitBadArguments, whose message holds every
\* extra name and every missing required name.
ValidationCompleteness ==
    (Ran /\ ExtraSupplied # {} /\ RequiredMissing # {}) =>
        /\ call.kind = "IBMQCircuitBadArguments"
        /\ \A x \in ExtraSupplied \cup RequiredMissing : Occurrences(x, call.message) >= 1

\* C14: when circuit_compile returned a response, compile raises
\* ApiIBMQProtocolError with the received format in its message if the
\* format is not the one asked for, and returns a program only if it is.
FormatMismatchProtocolError ==
    (call.op = "compile" /\ call.format # "none") =>
        /\ call.format # CircuitOutputTypeQASM =>
               /\ call.kind = "ApiIBMQProtocolError"
               /\ Occurrences(call.format, call.message) = 1
               /\ call.program = "none"
        /\ call.kind = "ok" => call.format = CircuitOutputTypeQASM

\* The server answered a compile request with QASM3.
FormatMismatchProtocolErrorWitness ==
    /\ call.op = "compile"
    /\ call.format = "QASM3"
    /\ call.kind = "ApiIBMQProtocolError"
    /\ call.kwargs # <<>>

(***************************************************************************)
(* Properties of the remote gate's text                                    *)
(***************************************************************************)
\* text is name with every upper-case letter replaced by its lower-case one.
IsLowerCased(name, text) ==
    /\ Len(text) = Len(name)
    /\ \A i \in DOMAIN name :
           IF \E k \in DOMAIN UpperCase : UpperCase[k] = name[i]
           THEN \E k \in DOMAIN UpperCase : UpperCase[k] = name[i] /\ LowerCase[k] = text[i]
           ELSE text[i] = name[i]

\* Where the i-th of the comma-joined texts starts, less one.
RECURSIVE OffsetOf(_, _)
OffsetOf(texts, i) == IF i = 1 THEN 0 ELSE OffsetOf(texts, i - 1) + Len(texts[i - 1]) + 1

\* inner is the texts in their order with one comma, and nothing else,
\* between two neighbours.
IsCommaJoined(texts, inner) ==
    /\ Len(inner) = IF texts = <<>> THEN 0 ELSE OffsetOf(texts, Len(texts) + 1) - 1
    /\ \A i \in DOMAIN texts :
           /\ SubSeq(inner, OffsetOf(texts, i) + 1, OffsetOf(texts, i) + Len(texts[i])) = texts[i]
           /\ i < Len(texts) => inner[OffsetOf(texts, i + 1)] = ","

\* The first pragma line of gate g: the marker, a blank, the name as it
\* is, and the arguments in parentheses.
IsPragmaLine(g, line) ==
    LET head == PragmaMarker \o <<" ">> \o g.name \o <<"(">>
    IN  /\ Len(line) >= Len(head) + 1
        /\ SubSeq(line, 1, Len(head)) = head
        /\ line[Len(line)] = ")"
        /\ IsCommaJoined(g.remote_params, SubSeq(line, Len(head) + 1, Len(line) - 1))

\* The declaration line of gate g: the keyword, the lower-cased name, the
\* qubits q0 to q(n-1), each token after one blank, and a semicolon.
IsOpaqueLine(g, line) ==
    LET n == Len(g.name)
        qubits == SubSeq(line, n + 9, Len(line) - 1)
    IN  /\ Len(line) >= n + 9
        /\ SubSeq(line, 1, 7) = OpaqueKeyword \o <<" ">>
        /\ IsLowerCased(g.name, SubSeq(line, 8, n + 7))
        /\ line[n + 8] = " "
        /\ line[Len(line)] = ";"
        /\ IF g.num_qubits = 0 THEN qubits = <<>>
           ELSE split(qubits, ",") = [d \in 1..g.num_qubits |-> <<"q", DecimalDigits[d]>>]

\* C15: the text of every remote gate has exactly four lines: the pragma
\* line with the name in its case and the arguments comma-joined in
\* parentheses, the opaque declaration of the lower-cased name on q0 to
\* q(n-1), the bare pragma marker, and the lower-cased name.
FourLineBlock ==
    \A k \in DOMAIN call.blocks :
        LET lines == split(call.blocks[k], "\n")
            g == call.gates[k]
        IN  /\ Len(lines) = 4
            /\ IsPragmaLine(g, lines[1])
            /\ IsOpaqueLine(g, lines[2])
            /\ lines[3] = PragmaMarker
            /\ IsLowerCased(g.name, lines[4])

\* The text of 'QFT' on two qubits with two bound arguments was produced.
FourLineBlockWitness ==
    /\ call.op = "qasm"
    /\ Len(call.blocks) = 1
    /\ call.gates[1].name = <<"Q", "F", "T">>
    /\ call.gates[1].num_qubits = 2
    /\ Len(call.gates[1].remote_params) = 2
    /\ Len(split(call.blocks[1], "\n")) = 4

\* C16, as stated: two remote gates that have the same text have the same
\* name, the same number of qubits and the same sequence of bound
\* arguments, so the gate can be recovered from its text.
PragmaRoundTrip ==
    (Len(call.blocks) = 2 /\ call.blocks[1] = call.blocks[2]) =>
        call.gates[1] = call.gates[2]

(***************************************************************************)
(* Properties of the pass that removes duplicate declarations              *)
(***************************************************************************)
Submitted == call.op = "run" /\ call.kind = "ok"

Programs == DOMAIN call.circuits

InputLines(k) == split(circuit_qasm(call.circuits[k]), "\n")

InputRoles(k) == circuit_roles(call.circuits[k])

OutputLines(k) == split(call.qasm_strs[k], "\n")

\* The positions of the lines of a text that start with the opaque keyword
\* and follow a line that starts with the pragma marker.
DeclarationLines(lines) ==
    {i \in DOMAIN lines :
        i > 1 /\ startswith(lines[i], OpaqueKeyword) /\ startswith(lines[i - 1], PragmaMarker)}

\* The gate name of a declaration line: its second token.
DeclaredName(line) == split_blanks(line)[2]

\* The output of program k is its input lines at the kept positions, in
\* their order, the header being rewritten.
OutputIsKeptInput(k) ==
    LET inp == InputLines(k)
        out == OutputLines(k)
        kept == call.kept[k]
    IN  /\ Len(out) = Len(kept)
        /\ \A j \in DOMAIN kept :
               /\ kept[j] \in DOMAIN inp
               /\ j > 1 => kept[j - 1] < kept[j]
               /\ out[j] = IF InputRoles(k)[kept[j]] = "header" THEN NewHeader ELSE inp[kept[j]]

\* C17: in the output of every program no two declaration lines have the
\* same gate name, and a declaration line of the input is in the output
\* exactly when no declaration line before it in the input has its name.
FirstDeclarationSurvives ==
    Submitted =>
        \A k \in Programs :
            LET inp == InputLines(k)
                out == OutputLines(k)
                kept == call.kept[k]
            IN  /\ OutputIsKeptInput(k)
                /\ \A i, j \in DeclarationLines(out) :
                       i # j => DeclaredName(out[i]) # DeclaredName(out[j])
                /\ \A i \in DeclarationLines(inp) :
                       InSeq(i, kept) <=>
                           \A h \in DeclarationLines(inp) :
                               h < i => DeclaredName(inp[h]) # DeclaredName(inp[i])

\* A circuit declared one remote gate twice and another one once.
FirstDeclarationSurvivesWitness ==
    /\ Submitted
    /\ Len(call.circuits) = 1
    /\ Names(call.circuits[1]) = <<<<"Q", "F", "T">>, NameOpaqueX, <<"Q", "F", "T">>>>
    /\ Len(call.kept[1]) < Len(InputLines(1))

\* C18, as stated: over the outputs of all programs of a submission, no
\* two declaration lines have the same gate name.
DeclaredOnceInSubmission ==
    Submitted =>
        \A k, m \in Programs :
            \A i \in DeclarationLines(OutputLines(k)), j \in DeclarationLines(OutputLines(m)) :
                (k # m \/ i # j) => DeclaredName(OutputLines(k)[i]) # DeclaredName(OutputLines(m)[j])

\* C18, amended: the output of every program of a submission declares
\* exactly once every gate name that the program's input declares, whatever
\* the other programs of the submission declare.
DeclaredOncePerProgram ==
    Submitted =>
        \A k \in Programs :
            LET inp == InputLines(k)
                out == OutputLines(k)
            IN  \A i \in DeclarationLines(inp) :
                    Cardinality({j \in DeclarationLines(out) :
                                    DeclaredName(out[j]) = DeclaredName(inp[i])}) = 1

\* Two programs that declare the same remote gate were submitted together,
\* the second declaring it twice.
DeclaredOncePerProgramWitness ==
    /\ Submitted
    /\ Len(call.circuits) = 2
    /\ Names(call.circuits[1]) = <<<<"Q", "F", "T">>>>
    /\ Names(call.circuits[2]) = <<<<"Q", "F", "T">>, <<"h">>, <<"Q", "F", "T">>>>
    /\ \A k \in Programs : DeclarationLines(OutputLines(k)) # {}

\* The statements of remote gate name in the lines of a text.
UsageLines(lines, name) ==
    {i \in DOMAIN lines : lines[i] = lower(name) \o <<" ">> \o QubitArgs \o <<";">>}

\* C19, as stated: every line of the input that is not the opaque
\* declaration of a remote gate is in the output, unchanged but for the
\* header, and in the input's order; the output has one usage line for
\* every remote instruction of the circuit.
OtherLinesUntouched ==
    Submitted =>
        \A k \in Programs :
            /\ OutputIsKeptInput(k)
            /\ \A i \in DOMAIN InputLines(k) :
                   InputRoles(k)[i] # "opaque" => InSeq(i, call.kept[k])
            /\ \A n \in {call.circuits[k][i].name :
                            i \in {j \in DOMAIN call.circuits[k] : call.circuits[k][j].remote}} :
                   Cardinality(UsageLines(OutputLines(k), n))
                       = Cardinality({i \in DOMAIN call.circuits[k] : call.circuits[k][i].name = n})

(***************************************************************************)
(* Properties of concurrent discovery                                      *)
(***************************************************************************)
AllDone == \A t \in Callers : threads.callers[t].pc = "done"

\* One definition is cached under two identifiers.
CachedTwice ==
    \E i, j \in DOMAIN instances :
        /\ instances[i].id # instances[j].id
        /\ instances[i].inst = instances[j].inst

\* C20: when both callers have returned, the cache holds more identifiers
\* than the listing has entities only if the callers ran interleaved and
\* the listing was called more than once, which does happen; callers that
\* did not run interleaved make one listing call for every listing that
\* does not fail, and leave one identifier for every listed entity.
InterleavedDiscoveryDuplicates ==
    AllDone =>
        /\ Len(instances) > Len(Converted(threads.listing)) =>
               threads.overlapped /\ threads.listed > 1
        /\ ~threads.overlapped =>
               /\ threads.listed <= threads.errors + 1
               /\ initialized => Values(instances) = Converted(threads.listing)

\* Both callers have returned, they called the listing twice, and a listed
\* entity is cached under two identifiers, so that the cache holds more
\* identifiers than the listing has entities.
InterleavedDiscoveryDuplicatesWitness ==
    /\ AllDone
    /\ threads.listed = 2
    /\ threads.errors = 0
    /\ initialized
    /\ CachedTwice
    /\ Len(threads.listing) = 1
    /\ Cardinality(Keys(instances)) # Len(Converted(threads.listing))

(***************************************************************************)
(* Properties of the registry's discovery cycle                            *)
(***************************************************************************)
\* The operations that run _discover_instances.
DiscoveryOps == {"instances", "refresh", "getattr", "dir"}

\* C21, as stated: the flag goes from false to true only in an operation
\* whose discovery made a listing call that returned, and from true to
\* false only in refresh(); a refresh() whose listing call returned leaves
\* the registry initialized.
FlagTransitions ==
    [][/\ (~initialized /\ initialized') =>
              /\ ret'.op \in DiscoveryOps
              /\ ret'.listed = 1
              /\ ~ret'.listErr
       /\ (initialized /\ ~initialized') => ret'.op = "refresh"
       /\ (ret'.op = "refresh" /\ ret'.listed = 1 /\ ~ret'.listErr) => initialized'
      ]_vars

\* C22, as stated: when a discovery has failed, because the listing call
\* raised or because converting a listed record raised, the registry is
\* uninitialized, the cache is empty and no attribute is left.
NoPartialSuccess ==
    (ret.listErr \/ (ret.listed = 1 /\ ret.kind \in {"KeyError", "TypeError"})) =>
        /\ ~initialized
        /\ instances = <<>>
        /\ attrs = {}

\* The read operations of the registry.
ReadOps == {"instances", "get_instance", "getattr", "dir"}

\* C23: on an initialized registry no read operation (instances(),
\* get_instance(), attribute get, dir()) makes a listing or a single-fetch
\* call or changes the cache, the attributes or the initialized flag.
\* Apart from the explicit writes (add, a direct write of the cache), the
\* cache of an initialized registry changes only in refresh().
StableWhileInitialized ==
    [][/\ (initialized /\ ret'.op \in ReadOps) =>
              /\ UNCHANGED <<instances, attrs, initialized>>
              /\ ret'.listed = 0
              /\ ret'.fetched = 0
       /\ (initialized /\ instances' # instances) =>
              ret'.op \in {"refresh", "add", "write"}
      ]_vars

\* A directory listing has just been read from an initialized registry that
\* holds an entry.
StableWhileInitializedWitness ==
    /\ initialized
    /\ instances # <<>>
    /\ ret.op = "dir"
    /\ ret.listed = 0

(***************************************************************************)
(* Properties of the order of validation, of the type check and of the     *)
(* program that instantiate returns                                        *)
(***************************************************************************)
\* Message m holds one of the pieces.
HasPiece(m, pieces) == \E i \in DOMAIN m : m[i] \in pieces

ExtrasError ==
    /\ call.kind = "IBMQCircuitBadArguments"
    /\ HasPiece(call.message, {" are not valid parameters for ", " are not valid arguments for "})

MissingError ==
    /\ call.kind = "IBMQCircuitBadArguments"
    /\ HasPiece(call.message, {"Required parameters ", "Required arguments "})

TypeError ==
    /\ call.kind = "IBMQCircuitBadArguments"
    /\ HasPiece(call.message, {" should be type "})

\* The type tag of the parameter that a supplied name stands for (the last
\* one declared with the name).
DeclaredTag(name) ==
    LET at == {i \in DOMAIN call.parameters : call.parameters[i].name = name}
    IN  call.parameters[CHOOSE i \in at : \A j \in at : j <= i].type

\* The kinds of value that a type tag admits.
Matches(valueType, tag) ==
    <<valueType, tag>> \in {<<"int", "int">>, <<"str", "str">>, <<"list", "array[int]">>}

\* The supplied arguments whose value does not match the tag.
Mismatched ==
    {i \in DOMAIN call.kwargs :
        /\ call.kwargs[i].name \in Declared
        /\ ~Matches(call.kwargs[i].type, DeclaredTag(call.kwargs[i].name))}

\* circuit_compile was called: it returned a response or raised.
CollaboratorCalled == call.format # "none" \/ call.kind = "RequestsApiError"

\* instantiate went on to the circuit library.
LibraryUsed ==
    /\ call.op = "instantiate"
    /\ \/ call.kind \in {"ok", "CircuitReferenceNotFound"}
       \/ call.message = <<"str(cerr)">>

Produced == call.data # NoData \/ call.program # "none"

ValidationFails ==
    \/ ExtraSupplied # {}
    \/ RequiredMissing # {}
    \/ call.op = "compile" /\ Mismatched # {}

\* C24: a call that passes an extra name raises the error of the extra
\* names, whether or not a required name is missing; one that passes none
\* and leaves out a required name raises the error of the missing names;
\* the type error is raised by compile only and only when the names are in
\* order; and when the names or the types are not in order, no collaborator
\* is called, the circuit library is not used and nothing is produced.
ValidationOrder ==
    Ran =>
        /\ ExtraSupplied # {} => ExtrasError
        /\ (ExtraSupplied = {} /\ RequiredMissing # {}) => MissingError
        /\ TypeError =>
               /\ call.op = "compile"
               /\ ExtraSupplied = {}
               /\ RequiredMissing = {}
               /\ Mismatched # {}
        /\ ValidationFails =>
               /\ call.kind # "ok"
               /\ ~CollaboratorCalled
               /\ ~LibraryUsed
               /\ ~Produced

\* compile was called with an extra name and without a required one, and
\* raised the error of the extra names.
ValidationOrderWitness ==
    /\ call.op = "compile"
    /\ ExtraSupplied # {}
    /\ RequiredMissing # {}
    /\ ExtrasError
    /\ ~CollaboratorCalled

\* C25, as stated: when the names are in order, compile raises
\* IBMQCircuitBadArguments naming the argument, the expected and the
\* actual type, without a call of circuit_compile, if a supplied value
\* does not match its parameter's tag; if every value matches, the type
\* check raises nothing.
StrictTypeChecking ==
    (call.op = "compile" /\ ExtraSupplied = {} /\ RequiredMissing = {}) =>
        IF Mismatched # {}
        THEN /\ call.kind = "IBMQCircuitBadArguments"
             /\ \E i \in Mismatched :
                    call.message = <<"Argument ", call.kwargs[i].name, " should be type ",
                                     DeclaredTag(call.kwargs[i].name), ", not ",
                                     call.kwargs[i].type>>
             /\ ~CollaboratorCalled
        ELSE /\ ~TypeError
             /\ call.kind # "NameError"

\* C30: the circuit that a successful instantiate returns holds one
\* instruction: a remote gate that has the template's name, is applied to
\* the qubits 0 .. n-1 in order, n its number of qubits, and is bound to
\* the texts name=value of the keyword arguments in call order.
OpaqueInstruction ==
    (call.op = "instantiate" /\ call.kind = "ok") =>
        /\ Len(call.data) = 1
        /\ LET instr == call.data[1].instr
               qargs == call.data[1].qargs
           IN  /\ instr.is_remote
               /\ instr.name = call.name
               /\ Len(qargs) = instr.num_qubits
               /\ \A q \in DOMAIN qargs : qargs[q] = q - 1
               /\ Len(instr.remote_params) = Len(call.kwargs)
               /\ \A i \in DOMAIN call.kwargs :
                      instr.remote_params[i] =
                          <<call.kwargs[i].name, "=", call.kwargs[i].text>>

\* instantiate returned a gate on two qubits bound to two arguments.
OpaqueInstructionWitness ==
    /\ call.op = "instantiate"
    /\ call.kind = "ok"
    /\ Len(call.kwargs) = 2
    /\ Len(call.data) = 1
    /\ call.data[1].qargs = <<0, 1>>

(***************************************************************************)
(* Properties of the scope of the pass                                     *)
(***************************************************************************)
\* The positions of the lines of a text that the pass keeps when it starts
\* with no name declared: every line but a declaration line whose name an
\* earlier declaration line of the same text has.
KeptAlone(lines) ==
    {i \in DOMAIN lines :
        i \in DeclarationLines(lines) =>
            \A h \in DeclarationLines(lines) :
                h < i => DeclaredName(lines[h]) # DeclaredName(lines[i])}

\* C26: the lines kept of every program of a submission are those the
\* pass keeps when it starts the program with no name declared, so they
\* are settled by the program's own text: the first declaration of every
\* name in the program is kept whatever the programs before it declared,
\* and two equal programs of one submission have equal outputs.
PerProgramScope ==
    Submitted =>
        \A k \in Programs :
            /\ {call.kept[k][j] : j \in DOMAIN call.kept[k]} = KeptAlone(InputLines(k))
            /\ OutputIsKeptInput(k)
            /\ \A m \in Programs :
                   call.circuits[k] = call.circuits[m] => call.qasm_strs[k] = call.qasm_strs[m]

\* The same circuit, which declares a remote gate twice, was submitted
\* twice in one submission; each output keeps one declaration.
PerProgramScopeWitness ==
    /\ Submitted
    /\ Len(call.circuits) = 2
    /\ call.circuits[1] = call.circuits[2]
    /\ Names(call.circuits[1]) = <<<<"Q", "F", "T">>, <<"Q", "F", "T">>>>
    /\ \A k \in Programs : Cardinality(DeclarationLines(OutputLines(k))) = 1

(***************************************************************************)
(* Properties of the pass on the lines of one program                      *)
(***************************************************************************)
Passed == call.op \in {"dedup", "again"} /\ call.passes[1].exc = "none"

FirstPass == call.passes[1]

FirstOutput == split(FirstPass.text, "\n")

VersionMarker ==
    Passed =>
        LET inp == FirstPass.init_qasm
            out == FirstOutput
            kept == FirstPass.kept
        IN  /\ Len(out) = Len(kept)
            /\ \A j \in DOMAIN kept :
                   /\ kept[j] \in DOMAIN inp
                   /\ j > 1 => kept[j - 1] < kept[j]
                   /\ out[j] = IF startswith(inp[kept[j]], OldHeader) THEN NewHeader
                               ELSE inp[kept[j]]
            /\ \A i \in DOMAIN inp : startswith(inp[i], OldHeader) => InSeq(i, kept)
            /\ (\A i \in DOMAIN inp : ~startswith(inp[i], OldHeader)) =>
                   /\ \A j \in DOMAIN out : out[j] = inp[kept[j]]
                   /\ \A j \in DOMAIN out : out[j] # NewHeader

\* A program whose third line is the header, after a declaration that the
\* pass leaves in: 'OPENQASM 2.5;' is the third line of the output.
VersionMarkerWitness ==
    /\ Passed
    /\ Len(FirstPass.init_qasm) = 4
    /\ FirstPass.init_qasm[3] = HeaderLine
    /\ FirstPass.init_qasm[2] = OpaqueF
    /\ FirstOutput[3] = NewHeader
    /\ Len(FirstOutput) = 4

(***************************************************************************)
(* BackendConfiguration: the constructor and set_config.  A value is None, *)
(* a falsy value that is not None (0) or a truthy value.                   *)
(***************************************************************************)
\* Most calls of set_config on one configuration.
MaxCalls == 3

None == [truthy |-> FALSE, v |-> "None"]

\* What a caller passes as gate_def: nothing (None) or a gate definition.
GateDefValues == {None, [truthy |-> TRUE, v |-> "g1"], [truthy |-> TRUE, v |-> "g2"]}

\* What a caller passes as shots: nothing (None), 0 or a positive number.
ShotsValues ==
    {None, [truthy |-> FALSE, v |-> "0"], [truthy |-> TRUE, v |-> "5"],
     [truthy |-> TRUE, v |-> "7"]}

\* Replacing the field unless the argument is None.
or_unless_none(a, b) == IF a # None THEN a ELSE b

\* Python's "a or b": a if a is truthy, else b.
or(a, b) == IF a.truthy THEN a ELSE b

\* BackendConfiguration(gate_def, shots)
BackendConfiguration(gate_def, shots) == [gate_def |-> gate_def, shots |-> shots]

\* set_config(gate_def, shots) on the configuration self
set_config(self, gate_def, shots) ==
    [gate_def |-> or(gate_def, self.gate_def), shots |-> or(shots, self.shots)]

\* A configuration is constructed; constructed and supplied keep what the
\* constructor and the calls of set_config were given.
ConfigInit ==
    /\ Fresh
    /\ threads = NoThreads
    /\ call \in {[op |-> "init", self |-> BackendConfiguration(g, n),
                  constructed |-> BackendConfiguration(g, n), supplied |-> <<>>] :
                     g \in GateDefValues, n \in ShotsValues}

SetConfig ==
    /\ Len(call.supplied) < MaxCalls
    /\ \E g \in GateDefValues, n \in ShotsValues :
           call' = [call EXCEPT !.op = "set_config",
                                !.self = set_config(call.self, g, n),
                                !.supplied = Append(@, [gate_def |-> g, shots |-> n])]
    /\ UNCHANGED <<vars, threads>>

ConfigNext == SetConfig

ConfigSpec == ConfigInit /\ [][ConfigNext]_allvars

(***************************************************************************)
(* Properties of BackendConfiguration                                      *)
(***************************************************************************)
\* The calls of set_config that supplied a truthy gate_def, or shots.
TruthyGateDefs == {i \in DOMAIN call.supplied : call.supplied[i].gate_def.truthy}

TruthyShots == {i \in DOMAIN call.supplied : call.supplied[i].shots.truthy}

Latest(S) == CHOOSE i \in S : \A j \in S : j <= i

\* C36: each field of a configuration holds the truthy value that the
\* latest call of set_config with a truthy value for it supplied, or the
\* constructor's value if there was no such call (so None, an omitted
\* argument and 0 leave the field as it was).
LatestTruthyValue ==
    /\ call.self.gate_def =
           IF TruthyGateDefs = {} THEN call.constructed.gate_def
           ELSE call.supplied[Latest(TruthyGateDefs)].gate_def
    /\ call.self.shots =
           IF TruthyShots = {} THEN call.constructed.shots
           ELSE call.supplied[Latest(TruthyShots)].shots

\* shots was constructed as 5, then set to 7, and then set_config(shots=0)
\* was called: shots is still 7.
LatestTruthyValueWitness ==
    /\ Len(call.supplied) = 2
    /\ call.constructed.shots.v = "5"
    /\ call.supplied[1].shots.v = "7"
    /\ call.supplied[2].shots.v = "0"
    /\ call.supplied[2].gate_def = None
    /\ call.self.shots.v = "7"

(***************************************************************************)
(* Properties of the submission                                            *)
(***************************************************************************)
\* The programs that run was given, in the order given.
GivenPrograms == IF call.arg.quantumCircuit THEN <<call.arg.value>> ELSE call.arg.value

\* C35: a run that ends well has made one call of circuit_user_execute,
\* with one text for every program it was given (one for a circuit given
\* by itself), the k-th text being made of the lines of the k-th program.
OneSubmission ==
    Submitted =>
        /\ Len(call.calls) = 1
        /\ Len(call.calls[1]) = Len(GivenPrograms)
        /\ \A k \in DOMAIN GivenPrograms :
               LET inp == split(circuit_qasm(GivenPrograms[k]), "\n")
                   out == split(call.calls[1][k], "\n")
                   kept == call.kept[k]
               IN  /\ Len(out) = Len(kept)
                   /\ \A j \in DOMAIN kept :
                          /\ kept[j] \in DOMAIN inp
                          /\ out[j] = version_header(inp[kept[j]])

\* Two different circuits were given in a list and went out in one call.
OneSubmissionWitness ==
    /\ Submitted
    /\ ~call.arg.quantumCircuit
    /\ Len(call.arg.value) = 2
    /\ call.arg.value[1] # call.arg.value[2]
    /\ Len(call.calls) = 1
    /\ Len(call.calls[1]) = 2

(***************************************************************************)
(* The registry read again and again while the listing call fails for a    *)
(* while: call.healthy says whether list_circuits() has stopped raising.   *)
(***************************************************************************)
RetryInit ==
    /\ Fresh
    /\ threads = NoThreads
    /\ call = [op |-> "list_circuits", healthy |-> FALSE]

\* The collaborator recovers: from now on the listing call returns.
Heal ==
    /\ ~call.healthy
    /\ call' = [call EXCEPT !.healthy = TRUE]
    /\ UNCHANGED <<vars, threads>>

\* instances(), the listing call raising only while the collaborator has
\* not recovered.
ReadInstances ==
    /\ Instances
    /\ call.healthy => ~ret'.listErr
    /\ UNCHANGED others

\* Attribute get, likewise.
ReadAttr ==
    /\ GetAttr
    /\ call.healthy => ~ret'.listErr
    /\ UNCHANGED others

RetryNext == Heal \/ ReadInstances \/ ReadAttr

\* The collaborator recovers in the end and instances() keeps being called.
RetrySpec ==
    /\ RetryInit
    /\ [][RetryNext]_allvars
    /\ WF_allvars(Heal)
    /\ WF_allvars(ReadInstances)

(***************************************************************************)
(* Properties of retried discovery                                         *)
(***************************************************************************)
\* C31, as stated: when reads keep being made and the listing call returns
\* in the end, the registry is initialized in the end, its cache holding
\* the entities of a listing that was returned.
RetryLiveness == <>(initialized /\ ~ret.listErr)

(***************************************************************************)
(* Properties of the entries that single-name fetches leave                *)
(***************************************************************************)
\* How many entries of cache c hold a definition named name.
NamedCount(c, name) == Cardinality({i \in DOMAIN c : c[i].inst.name = name})

\* How many records of a listing carry the name.
ListedCount(items, name) ==
    Cardinality({i \in DOMAIN items :
                    items[i].isdict /\ "name" \in items[i].keys /\ items[i].name = name})

\* C32: a get_instance(name) that returns on an uninitialized registry has
\* made one single-name fetch and has added one entry to the cache, under
\* an identifier that no entry had, every entry that was there staying as
\* it was: the cache holds one more definition named name.  An operation
\* that makes a listing call leaves, for every name, no more entries than
\* the listing has records of that name, and no attribute under an
\* identifier that was cached before and is not cached now.
FetchedEntriesAccumulate ==
    [][/\ (ret'.op = "get_instance" /\ ~initialized /\ ret'.kind = "ok") =>
              /\ ret'.fetched = 1
              /\ Len(instances') = Len(instances) + 1
              /\ SubSeq(instances', 1, Len(instances)) = instances
              /\ ~HasKey(instances, instances'[Len(instances')].id)
              /\ NamedCount(instances', ret'.arg) = NamedCount(instances, ret'.arg) + 1
       /\ ret'.listed = 1 =>
              /\ \A n \in QueryNames \cup {NameStale} :
                     NamedCount(instances', n) <= ListedCount(ret'.listing, n)
              /\ \A id \in Keys(instances) : HasAttr(attrs', id) => HasKey(instances', id)
      ]_vars

\* Two fetches of "q" have left the entries "q" and "q_", both named "q".
FetchedEntriesAccumulateWitness ==
    /\ ~initialized
    /\ ret.op = "get_instance"
    /\ ret.kind = "ok"
    /\ Len(instances) = 2
    /\ instances[1].id = <<"q">>
    /\ instances[2].id = <<"q", "_">>
    /\ NamedCount(instances, NameQ) = 2

(***************************************************************************)
(* Properties of the attribute mirror                                      *)
(***************************************************************************)
\* Every entry of the cache is an attribute bound to the same instance.
Mirrored(c, d) == \A i \in DOMAIN c : [id |-> c[i].id, inst |-> c[i].inst] \in d

\* The step was a completed discovery (in a read or in refresh()) or a
\* completed _add_instance (called directly or by get_instance).
CompletedUpdate ==
    \/ ret'.listed = 1 /\ ~ret'.listErr /\ ret'.kind \notin {"KeyError", "TypeError"}
    \/ ret'.op = "add"
    \/ ret'.op = "get_instance" /\ ret'.fetched = 1 /\ ret'.kind = "ok"

\* C33, as stated: after every completed discovery, add or refresh every
\* identifier of the cache is an attribute bound to the same instance; and
\* when a discovery has cleared the cache, no identifier that was cached
\* and is not cached any more is an attribute.
AttributeMirror ==
    [][/\ CompletedUpdate => Mirrored(instances', attrs')
       /\ ret'.listed = 1 =>
              \A id \in Keys(instances) \ Keys(instances') : ~HasAttr(attrs', id)
      ]_vars

(***************************************************************************)
(* The registry as Python keeps it: the instance __dict__ holds the        *)
(* fields _instances and _initialized next to the mirrored entries, and    *)
(* self.<name> is a lookup in it.  The __dict__ is an ordered mapping      *)
(* (call.dict) from names to values: a dict, a bool or a definition.       *)
(***************************************************************************)
\* Longest listing in which names of fields occur.
MaxFieldList == 3

FieldInstances == <<"_", "i", "n", "s", "t", "a", "n", "c", "e", "s">>

FieldInitialized == <<"_", "i", "n", "i", "t", "i", "a", "l", "i", "z", "e", "d">>

DictValue(c) == [t |-> "dict", items |-> c, b |-> FALSE, inst |-> NoInst]

BoolValue(b) == [t |-> "bool", items |-> <<>>, b |-> b, inst |-> NoInst]

InstanceValue(inst) == [t |-> "instance", items |-> <<>>, b |-> TRUE, inst |-> inst]

\* bool(value): a definition is an object without __bool__ or __len__.
truthy(value) == IF value.t = "dict" THEN value.items # <<>> ELSE value.b

\* The well-formed records the server lists here.
FieldRecords ==
    {RawRecord(AllKeys, n, "d1") : n \in {NameQ, FieldInstances, FieldInitialized}}

FieldResponses ==
    {[err |-> TRUE, items |-> <<>>]}
        \cup {[err |-> FALSE, items |-> l] : l \in SeqsUpTo(FieldRecords, MaxFieldList)}

\* d.pop(key, None) for every key of the set.
PopAll(d, keys) == SelectSeq(d, LAMBDA e : e.id \notin keys)

\* d.update(c) for a cache c of definitions.
RECURSIVE DictUpdate(_, _)
DictUpdate(d, c) ==
    IF c = <<>> THEN d
    ELSE DictUpdate(Put(d, Head(c).id, InstanceValue(Head(c).inst)), Tail(c))

\* _discover_instances on the __dict__ d, with resp what list_circuits()
\* does if it is called.  A field that is not in the __dict__ is looked
\* up by __getattr__, which calls _discover_instances, which looks the
\* field up again: RecursionError.
discover_instances_dict(d, resp) ==
    IF ~HasKey(d, FieldInitialized) \/ ~HasKey(d, FieldInstances)
    THEN [dict |-> d, exc |-> "RecursionError"]
    ELSE IF truthy(Lookup(d, FieldInitialized))
    THEN [dict |-> d, exc |-> "none"]
    ELSE IF Lookup(d, FieldInstances).t # "dict"
    THEN [dict |-> d, exc |-> "TypeError"]
    ELSE LET popped == PopAll(d, Keys(Lookup(d, FieldInstances).items))
             cleared == Put(popped, FieldInstances, DictValue(<<>>))
         IN  IF resp.err THEN [dict |-> cleared, exc |-> "none"]
             ELSE LET loop == DiscoverLoop(<<>>, resp.items, 1)
                      filled == Put(cleared, FieldInstances, DictValue(loop.cache))
                  IN  IF loop.exc # "none" THEN [dict |-> filled, exc |-> loop.exc]
                      ELSE [dict |-> Put(DictUpdate(filled, loop.cache),
                                         FieldInitialized, BoolValue(TRUE)),
                            exc |-> "none"]

\* "return list(self._instances.values())"
instances_values(d) ==
    IF ~HasKey(d, FieldInstances) THEN "RecursionError"
    ELSE IF Lookup(d, FieldInstances).t # "dict" THEN "AttributeError"
    ELSE "ok"

\* __init__
FieldsInit ==
    /\ Fresh
    /\ threads = NoThreads
    /\ call = [op |-> "init", kind |-> "ok",
               dict |-> <<[id |-> FieldInstances, inst |-> DictValue(<<>>)],
                          [id |-> FieldInitialized, inst |-> BoolValue(FALSE)]>>]

\* instances()
InstancesOfDict ==
    /\ \E resp \in FieldResponses :
           \E d \in {discover_instances_dict(call.dict, resp)} :
               call' = [op |-> "instances", dict |-> d.dict,
                        kind |-> IF d.exc # "none" THEN d.exc ELSE instances_values(d.dict)]
    /\ UNCHANGED <<vars, threads>>

\* refresh()
RefreshOfDict ==
    /\ \E resp \in FieldResponses :
           \E d \in {discover_instances_dict(
                         Put(call.dict, FieldInitialized, BoolValue(FALSE)), resp)} :
               call' = [op |-> "refresh", dict |-> d.dict,
                        kind |-> IF d.exc # "none" THEN d.exc ELSE "ok"]
    /\ UNCHANGED <<vars, threads>>

FieldsNext == InstancesOfDict \/ RefreshOfDict

FieldsSpec == FieldsInit /\ [][FieldsNext]_allvars

(***************************************************************************)
(* Properties of the registry's own fields                                 *)
(***************************************************************************)
\* C34, as stated: whatever names are listed, _instances is a dict (the
\* cache) and _initialized is a bool after every instances() and every
\* refresh().
BookkeepingIntact ==
    /\ HasKey(call.dict, FieldInstances)
    /\ Lookup(call.dict, FieldInstances).t = "dict"
    /\ HasKey(call.dict, FieldInitialized)
    /\ Lookup(call.dict, FieldInitialized).t = "bool"

====
